---- MODULE Spec2Model ----
(***************************************************************************)
(* Model of the ingestion/search core of forge's backend                   *)
(* (internal/services/ingest.go) running against a vector store.           *)
(*                                                                         *)
(* Strings are TLA+ strings; a Go map[string]interface{} is a function     *)
(* from key strings to tagged values [t |-> <dynamic type>, v |-> <value>].*)
(* Every store call of a service operation is one atomic step; the steps   *)
(* of concurrent calls interleave freely, as goroutines serving requests   *)
(* do.  A store call may fail at any time.                                 *)
(***************************************************************************)
EXTENDS Integers, Sequences, FiniteSets, TLC

VARIABLES
  collections,  \* the names of the store's collections
  records,      \* the records of every collection
  call,         \* per caller: the service call it is in, or its last one
  now,          \* the wall clock, in seconds
  budget,       \* the number of calls that may still be started
  ingested,     \* history: <<collection, content>> pairs ingested, with no
                \* delete on the collection since
  upload,       \* per caller: the multipart upload request it serves
  everIngested, \* history: <<collection, content>> pairs an IngestFile call
                \* has ever returned 'ingested' for
  request,      \* per caller: the JSON request (direct text, search) it serves
  main          \* the position of main() and what it has started

vars == <<collections, records, call, now, budget, ingested, upload,
          everIngested, request, main>>

-----------------------------------------------------------------------------
(* Bounds of the model *)

\* service calls started in one behaviour of Spec and of SpecIngest
MaxCalls == 2
\* service calls started in one behaviour of SpecRerun
MaxReruns == 3
\* length of the texts chunkText is applied to in SpecChunk
MaxTextLen == 5
\* largest chunk limit chunkText is applied with in SpecChunk
MaxLimit == 2
\* files of one multipart upload, and the service calls of SpecUpload
MaxFiles == 2
\* documents in a group of a store answer of SpecFlatten
MaxGroup == 2
\* concurrent callers (request goroutines)
Procs == {1, 2}

-----------------------------------------------------------------------------
(* Dynamic values *)

StrV(s) == [t |-> "string", v |-> s]
IntV(n) == [t |-> "int", v |-> n]
Int64V(n) == [t |-> "int64", v |-> n]
BoolV(b) == [t |-> "bool", v |-> b]
\* a float64; v counts units of the last place of the float64 format
Float64V(x) == [t |-> "float64", v |-> x]
\* a float32; v counts the same units, so it is even
Float32V(x) == [t |-> "float32", v |-> x]
\* a JSON array, which arrives as []interface{}
ListV(s) == [t |-> "list", v |-> s]

\* float32(val) of a float64: the low-order bit of the mantissa is lost
ToFloat32(x) == 2 * (x \div 2)

EmptyMap == <<>>

\* the program's chunk size, chunkText(text, 512)
ChunkLimit == 512

-----------------------------------------------------------------------------
(* Strings *)

CharAt(s, i) == SubSeq(s, i, i)

IsSpace(c) == c \in {" ", "\n", "\t", "\r"}

\* strings.Split(text, "\n"): the pieces between the newlines, in order;
\* always at least one piece (the empty text gives one empty piece)
SplitLines(text) ==
  LET nl == {i \in 1..Len(text) : CharAt(text, i) = "\n"}
      n == Cardinality(nl)
      \* position of the k-th newline, 0 for k = 0, Len+1 for k = n+1
      pos(k) == IF k = 0 THEN 0
                ELSE IF k = n + 1 THEN Len(text) + 1
                ELSE CHOOSE i \in nl : Cardinality({j \in nl : j < i}) = k - 1
  IN [k \in 1..(n + 1) |-> SubSeq(text, pos(k - 1) + 1, pos(k) - 1)]

\* len(strings.Fields(line)): the number of maximal runs of non-space
FieldCount(line) ==
  Cardinality({i \in 1..Len(line) :
                 /\ ~IsSpace(CharAt(line, i))
                 /\ (i = 1 \/ IsSpace(CharAt(line, i - 1)))})

RECURSIVE ChunkLoop(_, _, _, _, _, _)
\* mutant: the line is written to the builder without its newline
ChunkLoopUnbroken(lines, k, maxTokens, chunks, currentChunk, tokenCount) ==
  IF k > Len(lines)
  THEN IF Len(currentChunk) > 0 THEN Append(chunks, currentChunk) ELSE chunks
  ELSE LET line == lines[k]
           lineTokens == FieldCount(line)
           flush == tokenCount + lineTokens > maxTokens /\ Len(currentChunk) > 0
       IN ChunkLoop(lines, k + 1, maxTokens,
                    IF flush THEN Append(chunks, currentChunk) ELSE chunks,
                    (IF flush THEN "" ELSE currentChunk) \o line,
                    (IF flush THEN 0 ELSE tokenCount) + lineTokens)

\* mutant: the chunk is closed as soon as the limit is reached
ChunkLoopEager(lines, k, maxTokens, chunks, currentChunk, tokenCount) ==
  IF k > Len(lines)
  THEN IF Len(currentChunk) > 0 THEN Append(chunks, currentChunk) ELSE chunks
  ELSE LET line == lines[k]
           lineTokens == FieldCount(line)
           flush == tokenCount + lineTokens >= maxTokens /\ Len(currentChunk) > 0
       IN ChunkLoop(lines, k + 1, maxTokens,
                    IF flush THEN Append(chunks, currentChunk) ELSE chunks,
                    (IF flush THEN "" ELSE currentChunk) \o line \o "\n",
                    (IF flush THEN 0 ELSE tokenCount) + lineTokens)

\* the loop of chunkText over lines[k..]: chunks emitted so far, the
\* builder currentChunk and the running tokenCount
ChunkLoop(lines, k, maxTokens, chunks, currentChunk, tokenCount) ==
  IF k > Len(lines)
  THEN IF Len(currentChunk) > 0 THEN Append(chunks, currentChunk) ELSE chunks
  ELSE LET line == lines[k]
           lineTokens == FieldCount(line)
           flush == tokenCount + lineTokens > maxTokens /\ Len(currentChunk) > 0
           chunks1 == IF flush THEN Append(chunks, currentChunk) ELSE chunks
           cur1 == IF flush THEN "" ELSE currentChunk
           cnt1 == IF flush THEN 0 ELSE tokenCount
       IN ChunkLoop(lines, k + 1, maxTokens, chunks1,
                    cur1 \o line \o "\n", cnt1 + lineTokens)

chunkText(text, maxTokens) ==
  ChunkLoop(SplitLines(text), 1, maxTokens, <<>>, "", 0)

-----------------------------------------------------------------------------
(* Fingerprints.  Both digests are modelled as injective encodings of      *)
(* their input.                                                            *)

\* fmt.Sprintf("%x", md5.Sum(content))
Md5Hex(content) == "md5(" \o content \o ")"

\* fmt.Sprintf("%x", sha256.Sum256(input)[:8])
Sha256Hex8(input) == "sha(" \o input \o ")"

\* mutant: the chunk index is left out of the digest input
ChunkIDNoIndex(filePath, chunk, i) == Sha256Hex8(filePath \o chunk)

\* the id of chunk i (0-based) of source filePath
ChunkID(filePath, chunk, i) == Sha256Hex8(filePath \o chunk \o ToString(i))

-----------------------------------------------------------------------------
(* Metadata *)

SystemKeys == {"file_md5", "file_name", "timestamp", "chunk_index"}

UserPrefix == "user_"

HasPrefix(s, pre) == Len(s) >= Len(pre) /\ SubSeq(s, 1, Len(pre)) = pre

\* the system metadata literal of one chunk; i is the loop's int, the
\* timestamp is time.Now().Unix(), an int64
SystemMetadata(md5Hash, filePath, ts, i) ==
  [k \in SystemKeys |->
     CASE k = "file_md5" -> StrV(md5Hash)
       [] k = "file_name" -> StrV(filePath)
       [] k = "timestamp" -> Int64V(ts)
       [] k = "chunk_index" -> IntV(i)]

\* mutant: the user entries are written under their own keys
MergeUserMetadataUnprefixed(metadata, userMetadata) ==
  [k \in DOMAIN metadata \cup DOMAIN userMetadata |->
     IF k \in DOMAIN userMetadata THEN userMetadata[k] ELSE metadata[k]]

\* metadata["user_"+key] = value for every user entry, written after the
\* system entries
MergeUserMetadata(metadata, userMetadata) ==
  LET userKeys == {UserPrefix \o key : key \in DOMAIN userMetadata}
      orig(k) == CHOOSE key \in DOMAIN userMetadata : UserPrefix \o key = k
  IN [k \in DOMAIN metadata \cup userKeys |->
        IF k \in userKeys THEN userMetadata[orig(k)] ELSE metadata[k]]

ComposeMetadata(md5Hash, filePath, ts, i, userMetadata) ==
  MergeUserMetadata(SystemMetadata(md5Hash, filePath, ts, i), userMetadata)

\* the dynamic types the type switch of IngestFile turns into attributes
IngestAttrTypes == {"string", "int64", "float64"}

\* mutant: the type switch has no case for strings
ToChromaMetadataNoStrings(m) ==
  LET kept == {k \in DOMAIN m : m[k].t \in {"int64", "float64"}}
  IN [k \in kept |-> m[k]]

\* IngestFile's conversion of one composed map to a store metadata record:
\* an entry whose value matches no case of the switch gets no attribute
ToChromaMetadata(m) ==
  LET kept == {k \in DOMAIN m : m[k].t \in IngestAttrTypes}
  IN [k \in kept |-> m[k]]

\* the dynamic types the type switch of CreateDocDirect accepts
DirectAttrTypes == {"string", "int", "int64", "float64"}

\* CreateDocDirect's conversion: keys are stored as given, an int becomes
\* an int64 attribute
ToDirectMetadata(m) ==
  LET kept == {k \in DOMAIN m : m[k].t \in DirectAttrTypes}
  IN [k \in kept |-> IF m[k].t = "int" THEN Int64V(m[k].v) ELSE m[k]]

-----------------------------------------------------------------------------
(* The vector store, as the service uses it.  A collection is a set of     *)
(* records [id, text, meta] with pairwise distinct ids.                    *)

\* collection.Get(WithWhereGet(EqString(key, val)))
StoreGetWhere(recs, key, val) ==
  {r \in recs : key \in DOMAIN r.meta /\ r.meta[key].t = "string" /\ r.meta[key].v = val}

\* collection.Get(WithIDsGet(id))
StoreGetIDs(recs, id) == {r \in recs : r.id = id}

\* collection.Add(WithIDs, WithTexts, WithMetadatas): the records are
\* stored; a record whose id the collection already holds is ignored
StoreAdd(recs, ids, texts, metas) ==
  LET have == {r.id : r \in recs}
      first(j) == \A h \in 1..(j - 1) : ids[h] # ids[j]
  IN recs \cup {[id |-> ids[j], text |-> texts[j], meta |-> metas[j]] :
                  j \in {h \in 1..Len(ids) : ids[h] \notin have /\ first(h)}}

\* collection.Delete(WithIDsDelete(id))
StoreDelete(recs, id) == {r \in recs : r.id # id}

-----------------------------------------------------------------------------
(* Inputs of the model *)

RECURSIVE Rep(_, _)
\* s repeated n times
Rep(s, n) ==
  IF n = 0 THEN ""
  ELSE IF n % 2 = 0 THEN LET h == Rep(s, n \div 2) IN h \o h
  ELSE s \o Rep(s, n - 1)

\* one line of exactly ChunkLimit words
FullLine == Rep("w ", ChunkLimit - 1) \o "w"

\* a two-chunk document, and the same file cut down to its first line
BigDoc == FullLine \o "\ntail"
HeadDoc == FullLine

\* 1200 words on a single line, and 1200 words on three lines of 400
OneLineDoc == Rep("w ", 1199) \o "w"
ThreeLineDoc == Rep("w ", 399) \o "w\n" \o Rep("w ", 399) \o "w\n" \o Rep("w ", 399) \o "w"
\* two equal lines of ChunkLimit words each
TwinDoc == FullLine \o "\n" \o FullLine
WordDocs == {OneLineDoc, ThreeLineDoc, TwinDoc}

\* the seconds the wall clock shows while the model runs
Times == {0, 1}

Cols == {"c1"}
Names == {"a.txt", "b.txt"}
Contents == {HeadDoc, BigDoc}
UserMetas == {EmptyMap,
              ("file_md5" :> StrV("evil")) @@ ("flag" :> BoolV(TRUE))}
DocIDs == {"", "doc-1"}
Texts == {"", "hello"}
\* the texts of the errors the store client returns
StoreErrors == {"connection refused", "write conflict"}

DirectMetas == {EmptyMap, ("file_md5" :> StrV(Md5Hex(HeadDoc)))}

\* the values n successive reads of the clock can return, the first one
\* not before time t
ClockReads(t, n) ==
  {ts \in [1..n -> {x \in Times : x >= t}] :
     \A j \in 1..(n - 1) : ts[j] <= ts[j + 1]}

Max(a, b) == IF a >= b THEN a ELSE b

-----------------------------------------------------------------------------
(* State *)

\* the locals and the outcome of one service call, and the history of the
\* store calls it made
IdleCall ==
  [op |-> "none", pc |-> "idle",
   col |-> "", name |-> "", text |-> "", umeta |-> EmptyMap,
   docID |-> "", chunks |-> <<>>, ids |-> <<>>, metadatas |-> <<>>,
   k |-> 0, status |-> "", err |-> "", nchunks |-> 0, results |-> <<>>,
   \* history
   adds |-> <<>>,          \* the Add calls issued: <<ids, texts, metas>>
   issued |-> <<>>,        \* the queries issued: options and filter order
   failedAt |-> {},        \* the store calls that failed
   lateMut |-> FALSE,      \* a mutating store call was issued after a failure
   wrote |-> FALSE,        \* a step of the call changed the store
   prior |-> FALSE,        \* ingested before the call, no delete since
   colMissing |-> FALSE,   \* the collection was missing at resolution
   probed |-> FALSE,       \* the dedupe / id query was issued
   probeHit |-> FALSE,     \* ... and the store then held a matching record
   raced |-> FALSE,        \* inserted while a twin call was past its dedupe
   stale |-> FALSE]        \* the collection handle is of a deleted collection

NewCall(op, col, name, text, umeta) ==
  [IdleCall EXCEPT !.op = op, !.col = col, !.name = name, !.text = text,
                   !.umeta = umeta]

Returned(c) == c.pc = "done"

\* caller p can start a call; callers are interchangeable, so a call takes
\* the first caller that is not inside a call
Free(p) ==
  /\ call[p].pc \in {"idle", "done"}
  /\ budget > 0
  /\ \A q \in Procs : q < p => call[q].pc \notin {"idle", "done"}

\* mutant: a failed store call is reported as a skipped file
FailAsSkipped(c, at, msg) ==
  [c EXCEPT !.pc = "done", !.status = "skipped", !.failedAt = @ \cup {at}]

\* the call returns an error after store call `at` failed
Fail(c, at, msg) ==
  [c EXCEPT !.pc = "done", !.err = msg, !.failedAt = @ \cup {at}]

\* a store call on the collection handle of call c can succeed
HandleOk(c) == c.col \in collections /\ ~c.stale

\* the locals and the answer of handleFileUpload; valid and failed are
\* history: the request passed the handler's checks, the positions of the
\* files that failed; reject is the check that answered 400, nfiles the
\* number of files the form carried
NoUpload ==
  [phase |-> "none", col |-> "", files |-> <<>>, umeta |-> EmptyMap,
   pos |-> 0, results |-> <<>>, http |-> 0, valid |-> FALSE, failed |-> {},
   reject |-> "", nfiles |-> 0]

\* the locals and the answer of a JSON handler (handleDirectText, Search)
NoRequest ==
  [handler |-> "none", phase |-> "none", col |-> "", id |-> "", text |-> "",
   umeta |-> EmptyMap, k |-> 0, http |-> 0]

\* main() before its first statement
AtStart == [pc |-> "initConfig", failed |-> {}, mcp |-> FALSE, listening |-> FALSE]

\* main() with every startup check passed and both servers started
Serving == [pc |-> "serving", failed |-> {}, mcp |-> TRUE, listening |-> TRUE]

\* no request in flight, no history
InitRest ==
  /\ upload = [p \in Procs |-> NoUpload]
  /\ request = [p \in Procs |-> NoRequest]
  /\ everIngested = {}
  /\ ingested = {}
  /\ now = 0

InitStore ==
  /\ InitRest
  /\ main = Serving
  /\ collections = {}
  /\ records = [c \in Cols |-> {}]
  /\ call = [p \in Procs |-> IdleCall]

Init == InitStore /\ budget = MaxCalls

-----------------------------------------------------------------------------
(* IngestFile *)

\* s.chromaDB.GetOrCreateCollection(ctx, collectionName)
IngestResolve(p, col, filePath, content, userMetadata, ok) ==
  /\ Free(p)
  /\ budget' = budget - 1
  /\ LET c == [NewCall("IngestFile", col, filePath, content, userMetadata)
                 EXCEPT !.prior = <<col, content>> \in ingested,
                        !.colMissing = col \notin collections]
     IN IF ok
        THEN /\ collections' = collections \cup {col}
             /\ call' = [call EXCEPT ![p] =
                           [c EXCEPT !.pc = "dedupe",
                                     !.wrote = col \notin collections]]
        ELSE /\ collections' = collections
             /\ call' = [call EXCEPT ![p] =
                           Fail(c, "resolve", "failed to get/create collection")]
  /\ UNCHANGED <<records, now, ingested, upload, everIngested, request, main>>

\* chunkText(text, 512) of every content of the model, computed once
Chunked == [t \in Contents \cup WordDocs |-> chunkText(t, ChunkLimit)]

\* the records the dedupe query returns
DedupeMatches(recs, md5Hash) == StoreGetWhere(recs, "file_md5", md5Hash)

\* the ids and the metadata maps of the chunks; ts[i+1] is what time.Now()
\* returns in the iteration of chunk i
ComposeAll(c, chunks, ts) ==
  [c EXCEPT !.pc = "add",
            !.chunks = chunks,
            !.ids = [j \in 1..Len(chunks) |-> ChunkID(c.name, chunks[j], j - 1)],
            !.metadatas = [j \in 1..Len(chunks) |->
                ComposeMetadata(Md5Hex(c.text), c.name, ts[j], j - 1, c.umeta)]]

\* collection.Get(WithWhereGet(EqString("file_md5", md5Hash))) and, when no
\* record comes back, the chunking and the id and metadata loop
IngestDedupe(p, ok) ==
  LET c == call[p]
      docs == DedupeMatches(records[c.col], Md5Hex(c.text))
      c1 == [c EXCEPT !.probed = TRUE, !.probeHit = docs # {}]
      chunks == Chunked[c.text]
  IN /\ c.op = "IngestFile" /\ c.pc = "dedupe"
     /\ ok => HandleOk(c)
     /\ IF ~ok
        THEN /\ call' = [call EXCEPT ![p] = Fail(c1, "dedupe", "dedupe query failed")]
             /\ now' = now
        ELSE IF docs # {}
        THEN /\ call' = [call EXCEPT ![p] =
                           [c1 EXCEPT !.pc = "done", !.status = "skipped"]]
             /\ now' = now
        ELSE \E ts \in ClockReads(now, Len(chunks)) :
               /\ call' = [call EXCEPT ![p] = ComposeAll(c1, chunks, ts)]
               /\ now' = IF Len(chunks) = 0 THEN now ELSE ts[1]
     /\ UNCHANGED <<collections, records, budget, ingested, upload, everIngested, request, main>>

\* mutant: the metadata of the last chunk is left out of the Add
IngestAddArgsShort(c) ==
  <<c.ids, c.chunks,
    [j \in 1..(Len(c.metadatas) - 1) |-> ToChromaMetadata(c.metadatas[j])]>>

\* the arguments of IngestFile's collection.Add
IngestAddArgs(c) ==
  <<c.ids, c.chunks,
    [j \in 1..Len(c.metadatas) |-> ToChromaMetadata(c.metadatas[j])]>>

\* what IngestFile returns once Add succeeded
IngestedResult(c) ==
  [c EXCEPT !.pc = "done", !.status = "ingested", !.nchunks = Len(c.chunks)]

\* a twin of call p: the same content for the same collection, past its
\* dedupe query and not yet inserted
Twin(p, q) ==
  /\ q # p
  /\ call[q].op = "IngestFile" /\ call[q].pc = "add"
  /\ call[q].col = call[p].col /\ call[q].text = call[p].text

\* the time of the last clock read of the call
LastRead(c) ==
  IF c.metadatas = <<>> THEN 0 ELSE c.metadatas[Len(c.metadatas)]["timestamp"].v

\* collection.Add(ctx, WithIDs, WithTexts, WithMetadatas)
IngestAdd(p, ok) ==
  LET c == call[p]
      args == IngestAddArgs(c)
      recs1 == StoreAdd(records[c.col], args[1], args[2], args[3])
      c1 == [c EXCEPT !.adds = Append(@, args),
                      !.raced = \E q \in Procs : Twin(p, q)]
  IN /\ c.op = "IngestFile" /\ c.pc = "add"
     /\ ok => HandleOk(c)
     /\ now' = Max(now, LastRead(c))
     /\ IF ok
        THEN /\ records' = [records EXCEPT ![c.col] = recs1]
             /\ call' = [call EXCEPT ![p] =
                  IngestedResult([c1 EXCEPT !.wrote = @ \/ recs1 # records[c.col]])]
             /\ ingested' = ingested \cup {<<c.col, c.text>>}
             /\ everIngested' = everIngested \cup {<<c.col, c.text>>}
        ELSE /\ records' = records
             /\ call' = [call EXCEPT ![p] = Fail(c1, "insert", "add failed")]
             /\ ingested' = ingested
             /\ everIngested' = everIngested
     /\ UNCHANGED <<collections, budget, upload, request, main>>

-----------------------------------------------------------------------------
(* CreateDocDirect *)

\* the text check and s.chromaDB.GetOrCreateCollection(ctx, collectionName);
\* then the id: the given one, or the digest of the text
CreateResolve(p, col, id, text, metadata, ok) ==
  /\ Free(p)
  /\ budget' = budget - 1
  /\ LET c == [NewCall("CreateDocDirect", col, id, text, metadata)
                 EXCEPT !.colMissing = col \notin collections]
     IN IF text = ""
        THEN /\ collections' = collections
             /\ call' = [call EXCEPT ![p] =
                           [c EXCEPT !.pc = "done", !.err = "text is required"]]
        ELSE IF ok
        THEN /\ collections' = collections \cup {col}
             /\ call' = [call EXCEPT ![p] =
                  [c EXCEPT !.pc = IF id # "" THEN "check" ELSE "cadd",
                            !.docID = IF id = "" THEN Sha256Hex8(text) ELSE id,
                            !.wrote = col \notin collections]]
        ELSE /\ collections' = collections
             /\ \E e \in StoreErrors :
                  call' = [call EXCEPT ![p] =
                             Fail(c, "resolve", "get/create collection: " \o e)]
  /\ UNCHANGED <<records, now, ingested, upload, everIngested, request, main>>

\* what CreateDocDirect does with the answer of the id query: got is the
\* set of records returned, ok whether the query succeeded
AfterIDCheck(c, ok, got) ==
  IF ok /\ got # {}
  THEN [c EXCEPT !.pc = "done", !.err = "conflict: id already exists"]
  ELSE [c EXCEPT !.pc = "cadd",
                 !.failedAt = IF ok THEN @ ELSE @ \cup {"check"}]

\* collection.Get(ctx, WithIDsGet(id)), issued when an id was given
CreateCheck(p, ok) ==
  LET c == call[p]
      got == StoreGetIDs(records[c.col], c.name)
      c1 == [c EXCEPT !.probed = TRUE, !.probeHit = got # {}]
  IN /\ c.op = "CreateDocDirect" /\ c.pc = "check"
     /\ ok => HandleOk(c)
     /\ call' = [call EXCEPT ![p] = AfterIDCheck(c1, ok, got)]
     /\ UNCHANGED <<collections, records, now, budget, ingested, upload, everIngested, request, main>>

\* collection.Add(ctx, WithIDs(docID), WithTexts(text), WithMetadatas(md))
CreateAdd(p, ok) ==
  LET c == call[p]
      args == <<(<<c.docID>>), (<<c.text>>), (<<ToDirectMetadata(c.umeta)>>)>>
      recs1 == StoreAdd(records[c.col], args[1], args[2], args[3])
      c1 == [c EXCEPT !.adds = Append(@, args), !.lateMut = c.failedAt # {}]
  IN /\ c.op = "CreateDocDirect" /\ c.pc = "cadd"
     /\ ok => HandleOk(c)
     /\ IF ok
        THEN /\ records' = [records EXCEPT ![c.col] = recs1]
             /\ call' = [call EXCEPT ![p] =
                  [c1 EXCEPT !.pc = "done", !.status = "created",
                             !.wrote = @ \/ recs1 # records[c.col]]]
        ELSE /\ records' = records
             /\ \E e \in StoreErrors :
                  call' = [call EXCEPT ![p] =
                             Fail(c1, "insert", "add document: " \o e)]
     /\ UNCHANGED <<collections, now, budget, ingested, upload, everIngested, request, main>>

-----------------------------------------------------------------------------
(* Search *)

Nil == [t |-> "nil", v |-> ""]
FloatV(x) == [t |-> "float", v |-> x]

RECURSIVE SeqOf(_)
\* the elements of a finite set in the store's order
SeqOf(S) ==
  IF S = {} THEN <<>>
  ELSE LET x == CHOOSE y \in S : TRUE IN <<x>> \o SeqOf(S \ {x})

\* the orders in which a range loop can visit the keys of a map
KeyOrders(m) ==
  {o \in [1..Cardinality(DOMAIN m) -> DOMAIN m] :
     \A a, b \in 1..Cardinality(DOMAIN m) : a # b => o[a] # o[b]}

RECURSIVE WhereLoop(_, _, _, _)
\* mutant: the first entry of a supported type is kept
WhereLoopFirstWins(filter, order, j, whereClause) ==
  IF j > Len(order) THEN whereClause
  ELSE LET key == order[j]
           val == filter[key]
           w == IF whereClause # Nil THEN whereClause
                ELSE CASE val.t \in {"string", "int"} -> [key |-> key, val |-> val]
                       [] val.t = "float64" ->
                            [key |-> key, val |-> Float32V(ToFloat32(val.v))]
                       [] OTHER -> whereClause
       IN WhereLoop(filter, order, j + 1, w)

\* the range loop over the filter: every entry of a supported type
\* overwrites whereClause
WhereLoop(filter, order, j, whereClause) ==
  IF j > Len(order) THEN whereClause
  ELSE LET key == order[j]
           val == filter[key]
           w == CASE val.t = "string" -> [key |-> key, val |-> val]
                  [] val.t = "int" -> [key |-> key, val |-> val]
                  [] val.t = "float64" ->
                       [key |-> key, val |-> Float32V(ToFloat32(val.v))]
                  [] OTHER -> whereClause
       IN WhereLoop(filter, order, j + 1, w)

\* the query options Search builds: the where option is appended whenever
\* the filter has an entry, also with a nil clause
QueryOptions(query, k, filter, order) ==
  [texts |-> query, hasN |-> TRUE, n |-> k,
   hasWhere |-> DOMAIN filter # {},
   where |-> IF DOMAIN filter # {} THEN WhereLoop(filter, order, 1, Nil) ELSE Nil]

\* a record satisfies an equality clause
Satisfies(r, w) ==
  /\ w.key \in DOMAIN r.meta
  /\ \/ r.meta[w.key].t = w.val.t
     \/ r.meta[w.key].t = "int64" /\ w.val.t = "int"
     \/ r.meta[w.key].t = "float64" /\ w.val.t = "float32"
  /\ r.meta[w.key].v = w.val.v

\* the store's answer to a similarity query: one group per query text,
\* at most n records each, the distances in ascending order
StoreQuery(recs, opts) ==
  LET hits == IF opts.where = Nil THEN recs
              ELSE {r \in recs : Satisfies(r, opts.where)}
      all == SeqOf(hits)
      top == SubSeq(all, 1, IF opts.hasN /\ opts.n < Len(all) THEN opts.n ELSE Len(all))
  IN [docs |-> <<[j \in 1..Len(top) |-> top[j].text]>>,
      ids |-> <<[j \in 1..Len(top) |-> top[j].id]>>,
      metadatas |-> <<[j \in 1..Len(top) |->
                        IF top[j].meta = EmptyMap THEN Nil ELSE top[j].meta]>>,
      distances |-> <<[j \in 1..Len(top) |-> j - 1]>>]

\* mutant: every result carries the distance of the first document
FlattenFirstDistance(resp) ==
  IF Len(resp.docs) > 0 /\ Len(resp.docs[1]) > 0
  THEN [panic |-> FALSE,
        results |-> [i \in 1..Len(resp.docs[1]) |->
          [ID |-> resp.ids[1][i], Document |-> resp.docs[1][i],
           Metadata |-> EmptyMap, Distance |-> resp.distances[1][1]]]]
  ELSE [panic |-> FALSE, results |-> <<>>]

\* the SearchResults of a query response: the first group, flattened
Flatten(resp) ==
  IF Len(resp.docs) > 0 /\ Len(resp.docs[1]) > 0
  THEN IF \/ Len(resp.ids) = 0 \/ Len(resp.metadatas) = 0
          \/ Len(resp.distances) = 0
          \/ Len(resp.ids[1]) < Len(resp.docs[1])
          \/ Len(resp.distances[1]) < Len(resp.docs[1])
       THEN [panic |-> TRUE, results |-> <<>>]
       ELSE LET docs == resp.docs[1]
                ids == resp.ids[1]
                metadatas == resp.metadatas[1]
                distances == resp.distances[1]
            IN [panic |-> FALSE,
                results |-> [i \in 1..Len(docs) |->
                  [ID |-> ids[i], Document |-> docs[i],
                   Metadata |->
                     IF i <= Len(metadatas) /\ metadatas[i] # Nil
                     THEN ("id" :> StrV(ids[i])) @@ ("document" :> StrV(docs[i]))
                          @@ ("distance" :> FloatV(distances[i]))
                     ELSE EmptyMap,
                   Distance |-> distances[i]]]]
  ELSE [panic |-> FALSE, results |-> <<>>]

\* mutant: Search resolves its collection with GetOrCreateCollection
SearchResolveCreating(p, col, query, k, filter, ok) ==
  /\ Free(p)
  /\ budget' = budget - 1
  /\ collections' = IF ok THEN collections \cup {col} ELSE collections
  /\ LET c == [NewCall("Search", col, "", query, filter)
                 EXCEPT !.k = k, !.colMissing = col \notin collections]
     IN call' = [call EXCEPT ![p] =
          IF ok THEN [c EXCEPT !.pc = "query"]
          ELSE Fail(c, "resolve", "failed to get collection")]
  /\ UNCHANGED <<records, now, ingested, upload, everIngested, request, main>>

\* s.chromaDB.GetCollection(ctx, collectionName)
SearchResolve(p, col, query, k, filter, ok) ==
  /\ Free(p)
  /\ budget' = budget - 1
  /\ ok => col \in collections
  /\ LET c == [NewCall("Search", col, "", query, filter)
                 EXCEPT !.k = k, !.colMissing = col \notin collections]
     IN call' = [call EXCEPT ![p] =
          IF ok THEN [c EXCEPT !.pc = "query"]
          ELSE Fail(c, "resolve", "failed to get collection")]
  /\ UNCHANGED <<collections, records, now, ingested, upload, everIngested, request, main>>

\* collection.Query(ctx, queryOptions...) and the flattening of its answer
SearchQuery(p, ok) ==
  LET c == call[p]
  IN /\ c.op = "Search" /\ c.pc = "query"
     /\ ok => HandleOk(c)
     /\ \E order \in KeyOrders(c.umeta) :
          LET opts == QueryOptions(c.text, c.k, c.umeta, order)
              resp == StoreQuery(records[c.col], opts)
              flat == Flatten(resp)
              c1 == [c EXCEPT !.issued = Append(@,
                       [opts |-> opts, order |-> order,
                        resp |-> IF ok THEN <<resp>> ELSE <<>>])]
          IN call' = [call EXCEPT ![p] =
               IF ok
               THEN [c1 EXCEPT !.pc = "done",
                               !.status = IF flat.panic THEN "panic" ELSE "ok",
                               !.results = flat.results]
               ELSE Fail(c1, "query", "query failed")]
     /\ UNCHANGED <<collections, records, now, budget, ingested, upload, everIngested, request, main>>

-----------------------------------------------------------------------------
(* ChromaDB.Search, the store wrapper's search *)

\* the query options ChromaDB.Search builds: the result count only when
\* k > 0, the where option only when the loop produced a clause
DbQueryOptions(query, k, filter, order) ==
  LET where == IF DOMAIN filter # {} THEN WhereLoop(filter, order, 1, Nil) ELSE Nil
  IN [texts |-> query, hasN |-> k > 0, n |-> k,
      hasWhere |-> where # Nil, where |-> where]

\* c.GetCollection(ctx, collectionName)
DbSearchResolve(p, col, query, k, filter, ok) ==
  /\ Free(p)
  /\ budget' = budget - 1
  /\ ok => col \in collections
  /\ LET c == [NewCall("ChromaDB.Search", col, "", query, filter)
                 EXCEPT !.k = k, !.colMissing = col \notin collections]
     IN call' = [call EXCEPT ![p] =
          IF ok THEN [c EXCEPT !.pc = "query"]
          ELSE Fail(c, "resolve", "get collection")]
  /\ UNCHANGED <<collections, records, now, ingested, upload, everIngested, request, main>>

\* col.Query(ctx, opts...); the store's answer is returned as it is
DbSearchQuery(p, ok) ==
  LET c == call[p]
  IN /\ c.op = "ChromaDB.Search" /\ c.pc = "query"
     /\ ok => HandleOk(c)
     /\ \E order \in KeyOrders(c.umeta) :
          LET opts == DbQueryOptions(c.text, c.k, c.umeta, order)
              resp == StoreQuery(records[c.col], opts)
              c1 == [c EXCEPT !.issued = Append(@,
                       [opts |-> opts, order |-> order,
                        resp |-> IF ok THEN <<resp>> ELSE <<>>])]
          IN call' = [call EXCEPT ![p] =
               IF ok
               THEN [c1 EXCEPT !.pc = "done", !.status = "ok", !.results = <<resp>>]
               ELSE Fail(c1, "query", "query collection")]
     /\ UNCHANGED <<collections, records, now, budget, ingested, upload, everIngested, request, main>>

-----------------------------------------------------------------------------
(* Deletes *)

InFlight(c) == c.pc \notin {"idle", "done"}

\* the calls after caller p's delete on collection col: p's call becomes cp;
\* a call in flight on col no longer follows an undisturbed ingestion, and
\* its handle is stale once the collection itself is gone
AfterDelete(p, cp, col, gone) ==
  [q \in Procs |->
     IF q = p THEN cp
     ELSE IF call[q].col = col /\ InFlight(call[q])
     THEN [call[q] EXCEPT !.prior = FALSE, !.stale = @ \/ gone]
     ELSE call[q]]

Forget(col) == {x \in ingested : x[1] # col}

\* s.chromaDB.GetCollection(ctx, collectionName)
DeleteDocResolve(p, col, id, ok) ==
  /\ Free(p)
  /\ budget' = budget - 1
  /\ ok => col \in collections
  /\ LET c == [NewCall("DeleteDoc", col, id, "", EmptyMap)
                 EXCEPT !.colMissing = col \notin collections]
     IN call' = [call EXCEPT ![p] =
          IF ok THEN [c EXCEPT !.pc = "delete"]
          ELSE Fail(c, "resolve", "err getting collection to delete")]
  /\ UNCHANGED <<collections, records, now, ingested, upload, everIngested, request, main>>

\* collection.Delete(ctx, WithIDsDelete(id))
DeleteDocDelete(p, ok) ==
  LET c == call[p]
      recs1 == StoreDelete(records[c.col], c.name)
  IN /\ c.op = "DeleteDoc" /\ c.pc = "delete"
     /\ ok => HandleOk(c)
     /\ IF ok
        THEN /\ records' = [records EXCEPT ![c.col] = recs1]
             /\ call' = AfterDelete(p, [c EXCEPT !.pc = "done", !.status = "ok",
                                          !.wrote = recs1 # records[c.col]],
                                    c.col, FALSE)
             /\ ingested' = Forget(c.col)
        ELSE /\ records' = records
             /\ call' = [call EXCEPT ![p] = Fail(c, "delete", "delete failed")]
             /\ ingested' = ingested
     /\ UNCHANGED <<collections, now, budget, upload, everIngested, request, main>>

\* s.chromaDB.DeleteCollection(ctx, name)
DeleteCollection(p, name, ok) ==
  /\ Free(p)
  /\ budget' = budget - 1
  /\ ok => name \in collections
  /\ LET c == NewCall("DeleteCollection", name, "", "", EmptyMap)
     IN IF ok
        THEN /\ collections' = collections \ {name}
             /\ records' = [records EXCEPT ![name] = {}]
             /\ call' = AfterDelete(p, [c EXCEPT !.pc = "done", !.status = "ok",
                                          !.wrote = TRUE], name, TRUE)
             /\ ingested' = Forget(name)
        ELSE /\ collections' = collections
             /\ records' = records
             /\ call' = [call EXCEPT ![p] = Fail(c, "delete", "delete collection failed")]
             /\ ingested' = ingested
  /\ UNCHANGED <<now, upload, everIngested, request, main>>

-----------------------------------------------------------------------------
(* Collections and documents *)

\* s.chromaDB.ListCollections(ctx), then the names
ListCollections(p, ok) ==
  /\ Free(p)
  /\ budget' = budget - 1
  /\ LET c == NewCall("ListCollections", "", "", "", EmptyMap)
     IN call' = [call EXCEPT ![p] =
          IF ok THEN [c EXCEPT !.pc = "done", !.status = "ok",
                               !.results = SeqOf(collections)]
          ELSE Fail(c, "list", "failed to list collections")]
  /\ UNCHANGED <<collections, records, now, ingested, upload, everIngested, request, main>>

\* s.chromaDB.GetOrCreateCollection(ctx, name)
CreateCollection(p, name, ok) ==
  /\ Free(p)
  /\ budget' = budget - 1
  /\ LET c == [NewCall("CreateCollection", name, "", "", EmptyMap)
                 EXCEPT !.colMissing = name \notin collections]
     IN IF ok
        THEN /\ collections' = collections \cup {name}
             /\ call' = [call EXCEPT ![p] =
                  [c EXCEPT !.pc = "done", !.status = "ok",
                            !.wrote = name \notin collections]]
        ELSE /\ collections' = collections
             /\ call' = [call EXCEPT ![p] =
                           Fail(c, "resolve", "failed to create collection")]
  /\ UNCHANGED <<records, now, ingested, upload, everIngested, request, main>>

\* s.chromaDB.GetCollection(ctx, collectionName)
GetDocsResolve(p, col, ok) ==
  /\ Free(p)
  /\ budget' = budget - 1
  /\ ok => col \in collections
  /\ LET c == [NewCall("GetCollectionDocuments", col, "", "", EmptyMap)
                 EXCEPT !.colMissing = col \notin collections]
     IN call' = [call EXCEPT ![p] =
          IF ok THEN [c EXCEPT !.pc = "get"]
          ELSE Fail(c, "resolve", "failed to get collection")]
  /\ UNCHANGED <<collections, records, now, ingested, upload, everIngested, request, main>>

\* the Documents built from the records collection.Get returns
Documents(all) ==
  [j \in 1..Len(all) |->
     [ID |-> all[j].id, Content |-> all[j].text,
      Metadata |-> IF all[j].meta # EmptyMap
                   THEN ("id" :> all[j].id) @@ ("document" :> all[j].text)
                   ELSE ("id" :> all[j].id)]]

\* collection.Get(ctx)
GetDocsGet(p, ok) ==
  LET c == call[p]
  IN /\ c.op = "GetCollectionDocuments" /\ c.pc = "get"
     /\ ok => HandleOk(c)
     /\ call' = [call EXCEPT ![p] =
          IF ok THEN [c EXCEPT !.pc = "done", !.status = "ok",
                               !.results = Documents(SeqOf(records[c.col]))]
          ELSE Fail(c, "get", "failed to get documents")]
     /\ UNCHANGED <<collections, records, now, budget, ingested, upload, everIngested, request, main>>

-----------------------------------------------------------------------------
(* handleFileUpload, the handler of a multipart upload *)

\* the per-file result of a file that could not be opened, read or ingested
ErrorResult(name) == [Status |-> "error", File |-> name, Chunks |-> 0]

\* the first check of handleFileUpload the request fails, "" when none:
\* the form parses, it has files, collection_id is given, the metadata
\* field is valid JSON
UploadReject(formOk, files, collectionName, metadataOk) ==
  IF ~formOk THEN "form"
  ELSE IF Len(files) = 0 THEN "files"
  ELSE IF collectionName = "" THEN "collection"
  ELSE IF ~metadataOk THEN "metadata"
  ELSE ""

\* c.MultipartForm() and the checks of the request: the form, the files,
\* collection_id and the metadata JSON; any failing check answers 400.
\* Callers are interchangeable: the request is served by the first one.
UploadBegin(p, formOk, files, collectionName, metadataOk, userMetadata) ==
  LET reject == UploadReject(formOk, files, collectionName, metadataOk)
      valid == reject = ""
  IN /\ upload[p].phase = "none" /\ call[p].pc = "idle"
     /\ request[p].phase # "bound"
     /\ \A q \in Procs : p <= q
     /\ upload' = [upload EXCEPT ![p] =
          IF valid
          THEN [NoUpload EXCEPT !.phase = "loop", !.col = collectionName,
                                !.files = files, !.umeta = userMetadata,
                                !.pos = 1, !.valid = TRUE, !.nfiles = Len(files)]
          ELSE [NoUpload EXCEPT !.phase = "done", !.http = 400, !.reject = reject,
                                !.col = collectionName, !.nfiles = Len(files)]]
     /\ UNCHANGED <<collections, records, call, now, budget, ingested, everIngested, request, main>>

\* the handler is at the top of its loop, on file pos
AtFile(p) ==
  /\ upload[p].phase = "loop" /\ upload[p].pos <= Len(upload[p].files)
  /\ call[p].pc = "idle"

\* mutant: a file that cannot be opened or read ends the request
UploadFileFailAbort(p, at) ==
  /\ AtFile(p)
  /\ upload' = [upload EXCEPT ![p] =
       [@ EXCEPT !.phase = "done", !.http = 500, !.failed = @ \cup {upload[p].pos}]]
  /\ UNCHANGED <<collections, records, call, now, budget, ingested, everIngested, request, main>>

\* fileHeader.Open() or io.ReadAll(f) fails: an error result, and continue
UploadFileFail(p, at) ==
  /\ AtFile(p)
  /\ upload' = [upload EXCEPT ![p] =
       [@ EXCEPT !.results = Append(@, ErrorResult(upload[p].files[upload[p].pos].name)),
                 !.pos = @ + 1,
                 !.failed = @ \cup {upload[p].pos}]]
  /\ UNCHANGED <<collections, records, call, now, budget, ingested, everIngested, request, main>>

\* the file was opened and read: h.ingestService.IngestFile is called
UploadIngest(p, ok) ==
  /\ AtFile(p)
  /\ LET f == upload[p].files[upload[p].pos]
     IN IngestResolve(p, upload[p].col, f.name, f.content, upload[p].umeta, ok)

\* IngestFile has returned: an error result on an error, its result
\* otherwise, and the loop goes on to the next file
UploadCollect(p) ==
  LET c == call[p]
  IN /\ upload[p].phase = "loop"
     /\ c.op = "IngestFile" /\ Returned(c)
     /\ upload' = [upload EXCEPT ![p] =
          [@ EXCEPT !.results = Append(@,
                      IF c.err # "" THEN ErrorResult(c.name)
                      ELSE [Status |-> c.status, File |-> c.name, Chunks |-> c.nchunks]),
                    !.pos = @ + 1,
                    !.failed = IF c.err # "" THEN @ \cup {upload[p].pos} ELSE @]]
     /\ call' = [call EXCEPT ![p] = IdleCall]
     /\ UNCHANGED <<collections, records, now, budget, ingested, everIngested, request, main>>

\* c.JSON(http.StatusOK, gin.H{"results": results}) after the loop
UploadRespond(p) ==
  /\ upload[p].phase = "loop" /\ upload[p].pos > Len(upload[p].files)
  /\ call[p].pc = "idle"
  /\ upload' = [upload EXCEPT ![p] = [@ EXCEPT !.phase = "done", !.http = 200]]
  /\ UNCHANGED <<collections, records, call, now, budget, ingested, everIngested, request, main>>

-----------------------------------------------------------------------------
(* handleDirectText and Search, the handlers of JSON requests *)

\* strings.Contains(s, substr)
Contains(s, substr) ==
  \E i \in 1..(Len(s) - Len(substr) + 1) : SubSeq(s, i, i + Len(substr) - 1) = substr

\* caller p can take a JSON request: it serves no other request.  Callers
\* are interchangeable: the request is served by the first one.
HandlerFree(p) ==
  /\ call[p].pc = "idle"
  /\ upload[p].phase \in {"none", "done"}
  /\ request[p].phase \in {"none", "done"}
  /\ \A q \in Procs : p <= q

\* mutant: the binding does not require the text
DirectBindOkNoText(jsonOk, collection, text) == jsonOk /\ collection # ""

\* c.ShouldBindJSON(&req) of handleDirectText succeeds: the body is JSON
\* and the fields tagged binding:"required" are not empty
DirectBindOk(jsonOk, collection, text) == jsonOk /\ collection # "" /\ text # ""

\* handleDirectText up to its binding check, which answers 400
DirectBind(p, jsonOk, collection, id, text, metadata) ==
  LET r == [NoRequest EXCEPT !.handler = "direct", !.col = collection, !.id = id,
                             !.text = text, !.umeta = metadata]
  IN /\ HandlerFree(p)
     /\ request' = [request EXCEPT ![p] =
          IF DirectBindOk(jsonOk, collection, text)
          THEN [r EXCEPT !.phase = "bound"]
          ELSE [r EXCEPT !.phase = "done", !.http = 400]]
     /\ UNCHANGED <<collections, records, call, now, budget, ingested, upload,
                    everIngested, main>>

\* h.ingestService.CreateDocDirect(ctx, req.Collection, req.ID, req.Text,
\* req.Metadata) is called
DirectCall(p, ok) ==
  LET r == request[p]
  IN /\ r.handler = "direct" /\ r.phase = "bound" /\ call[p].pc = "idle"
     /\ CreateResolve(p, r.col, r.id, r.text, r.umeta, ok)

\* the status handleDirectText answers with once CreateDocDirect returned
DirectStatus(err) ==
  IF err = "" THEN 201
  ELSE IF Contains(err, "conflict") THEN 409
  ELSE 500

\* CreateDocDirect has returned: the response
DirectRespond(p) ==
  LET c == call[p]
  IN /\ request[p].handler = "direct" /\ request[p].phase = "bound"
     /\ c.op = "CreateDocDirect" /\ Returned(c)
     /\ request' = [request EXCEPT ![p] =
          [@ EXCEPT !.phase = "done", !.http = DirectStatus(c.err)]]
     /\ call' = [call EXCEPT ![p] = IdleCall]
     /\ UNCHANGED <<collections, records, now, budget, ingested, upload,
                    everIngested, main>>

\* c.ShouldBindJSON(&req) of the Search handler succeeds
SearchBindOk(jsonOk, query, collectionId) == jsonOk /\ query # "" /\ collectionId # ""

\* the Search handler up to its binding check, which answers 400, and the
\* default of k
SearchBind(p, jsonOk, query, collectionId, k, filter) ==
  LET r == [NoRequest EXCEPT !.handler = "search", !.col = collectionId,
                             !.text = query, !.umeta = filter, !.k = k]
  IN /\ HandlerFree(p)
     /\ request' = [request EXCEPT ![p] =
          IF SearchBindOk(jsonOk, query, collectionId)
          THEN [r EXCEPT !.phase = "bound", !.k = IF k = 0 THEN 5 ELSE k]
          ELSE [r EXCEPT !.phase = "done", !.http = 400]]
     /\ UNCHANGED <<collections, records, call, now, budget, ingested, upload,
                    everIngested, main>>

\* h.ingestService.Search(ctx, req.CollectionId, req.Query, req.K,
\* req.Filter) is called
SearchCall(p, ok) ==
  LET r == request[p]
  IN /\ r.handler = "search" /\ r.phase = "bound" /\ call[p].pc = "idle"
     /\ SearchResolve(p, r.col, r.text, r.k, r.umeta, ok)

\* Search has returned: 500 on an error, 200 and the results otherwise
SearchRespond(p) ==
  LET c == call[p]
  IN /\ request[p].handler = "search" /\ request[p].phase = "bound"
     /\ c.op = "Search" /\ Returned(c)
     /\ request' = [request EXCEPT ![p] =
          [@ EXCEPT !.phase = "done", !.http = IF c.err # "" THEN 500 ELSE 200]]
     /\ call' = [call EXCEPT ![p] = IdleCall]
     /\ UNCHANGED <<collections, records, now, budget, ingested, upload,
                    everIngested, main>>

-----------------------------------------------------------------------------
(* main: the startup checks and the start of the two servers *)

\* logging.GetLogger().WithError(err).Fatal(msg): the entry is logged and
\* Logger.ExitFunc is called, which logging.init has set to func(int) {},
\* so the call returns and main goes on
Fatal(m, check) == [m EXCEPT !.failed = @ \cup {check}]

\* every variable but main
notMain ==
  <<collections, records, call, now, budget, ingested, upload, everIngested, request>>

\* boot, err := initConfig(); on an error boot is nil and
\* defer boot.ConfigStore.Close() dereferences it
MainInitConfig(ok) ==
  /\ main.pc = "initConfig"
  /\ main' = IF ok THEN [main EXCEPT !.pc = "getAll"]
             ELSE [Fatal(main, "config") EXCEPT !.pc = "panicked"]
  /\ UNCHANGED notMain

\* vals, err := boot.ConfigStore.GetAll(); on an error vals is Values{}
MainGetAll(ok) ==
  /\ main.pc = "getAll"
  /\ main' = [(IF ok THEN main ELSE Fatal(main, "values")) EXCEPT !.pc = "newChroma"]
  /\ UNCHANGED notMain

\* chromaDB, err := db.NewChromaDB(basePath); on an error chromaDB is nil
MainNewChromaDB(ok) ==
  /\ main.pc = "newChroma"
  /\ main' = [(IF ok THEN main ELSE Fatal(main, "client")) EXCEPT !.pc = "health"]
  /\ UNCHANGED notMain

\* chromaDB.Health(ctx): c.client.Heartbeat(ctx), which dereferences a nil
\* chromaDB; then the log line "ChromaDB is healthy"
MainHealth(ok) ==
  /\ main.pc = "health"
  /\ main' = IF "client" \in main.failed THEN [main EXCEPT !.pc = "panicked"]
             ELSE [(IF ok THEN main ELSE Fatal(main, "heartbeat")) EXCEPT !.pc = "startMcp"]
  /\ UNCHANGED notMain

\* the service, the handlers and the routes, then
\* go mcpServer.Start(mcpPort)
MainStartMcp ==
  /\ main.pc = "startMcp"
  /\ main' = [main EXCEPT !.pc = "listen", !.mcp = TRUE]
  /\ UNCHANGED notMain

\* go func() { server.ListenAndServe() }(): the listener is up unless the
\* address cannot be bound
MainListen(ok) ==
  /\ main.pc = "listen"
  /\ main' = [main EXCEPT !.pc = "serving", !.listening = ok]
  /\ UNCHANGED notMain

\* <-ctx.Done() and server.Shutdown: main returns
MainShutdown ==
  /\ main.pc = "serving"
  /\ main' = [main EXCEPT !.pc = "stopped", !.mcp = FALSE, !.listening = FALSE]
  /\ UNCHANGED notMain

-----------------------------------------------------------------------------
(* Specifications *)

\* the ids a caller may ask to delete: those stored, and one that is not
DeleteIDs(col) == {r.id : r \in records[col]} \cup {"doc-1"}

Filters == {EmptyMap, ("file_name" :> StrV("a.txt"))}

\* the steps of calls in flight
Steps ==
  \/ \E p \in Procs, ok \in BOOLEAN : IngestDedupe(p, ok)
  \/ \E p \in Procs, ok \in BOOLEAN : IngestAdd(p, ok)
  \/ \E p \in Procs, ok \in BOOLEAN : CreateCheck(p, ok)
  \/ \E p \in Procs, ok \in BOOLEAN : CreateAdd(p, ok)
  \/ \E p \in Procs, ok \in BOOLEAN : SearchQuery(p, ok)
  \/ \E p \in Procs, ok \in BOOLEAN : DeleteDocDelete(p, ok)
  \/ \E p \in Procs, ok \in BOOLEAN : GetDocsGet(p, ok)

\* every operation of the service, on a single source name
Next ==
  \/ Steps
  \/ \E p \in Procs, col \in Cols, t \in Contents, ok \in BOOLEAN :
        IngestResolve(p, col, "a.txt", t, EmptyMap, ok)
  \/ \E p \in Procs, col \in Cols, id \in DocIDs, t \in Texts, ok \in BOOLEAN :
        CreateResolve(p, col, id, t, EmptyMap, ok)
  \/ \E p \in Procs, col \in Cols, f \in Filters, ok \in BOOLEAN :
        SearchResolve(p, col, "w", 5, f, ok)
  \/ \E p \in Procs, col \in Cols, ok \in BOOLEAN :
        \E id \in DeleteIDs(col) : DeleteDocResolve(p, col, id, ok)
  \/ \E p \in Procs, col \in Cols, ok \in BOOLEAN : DeleteCollection(p, col, ok)
  \/ \E p \in Procs, ok \in BOOLEAN : ListCollections(p, ok)
  \/ \E p \in Procs, col \in Cols, ok \in BOOLEAN : CreateCollection(p, col, ok)
  \/ \E p \in Procs, col \in Cols, ok \in BOOLEAN : GetDocsResolve(p, col, ok)

Spec == Init /\ [][Next]_vars

\* ingestion of every source name, content and user metadata
NextIngest ==
  \/ \E p \in Procs, ok \in BOOLEAN : IngestDedupe(p, ok)
  \/ \E p \in Procs, ok \in BOOLEAN : IngestAdd(p, ok)
  \/ \E p \in Procs, col \in Cols, n \in Names, t \in Contents,
        um \in UserMetas, ok \in BOOLEAN : IngestResolve(p, col, n, t, um, ok)

SpecIngest == Init /\ [][NextIngest]_vars

InitRerun == InitStore /\ budget = MaxReruns

\* histories of MaxReruns calls: re-ingestion of the source names with the
\* same or with changed content, and deletes of single documents
NextRerun ==
  \/ \E p \in Procs, ok \in BOOLEAN : IngestDedupe(p, ok)
  \/ \E p \in Procs, ok \in BOOLEAN : IngestAdd(p, ok)
  \/ \E p \in Procs, ok \in BOOLEAN : DeleteDocDelete(p, ok)
  \/ \E p \in Procs, col \in Cols, n \in Names, t \in Contents, ok \in BOOLEAN :
        IngestResolve(p, col, n, t, EmptyMap, ok)
  \/ \E p \in Procs, col \in Cols, ok \in BOOLEAN :
        \E id \in DeleteIDs(col) : DeleteDocResolve(p, col, id, ok)

SpecRerun == InitRerun /\ [][NextRerun]_vars

\* the characters of the texts of SpecChunk: a word character, a blank and
\* the line break
Alphabet == {"w", " ", "\n"}

RECURSIVE TextsOfLen(_)
TextsOfLen(n) ==
  IF n = 0 THEN {""} ELSE {s \o ch : s \in TextsOfLen(n - 1), ch \in Alphabet}

SmallTexts == UNION {TextsOfLen(n) : n \in 0..MaxTextLen}

\* the limits of SpecChunk; a negative limit is an int like any other
Limits == (-1)..MaxLimit

\* a caller about to apply chunkText to text with limit maxTokens
ChunkCall(text, maxTokens) ==
  [NewCall("chunkText", "", "", text, EmptyMap) EXCEPT !.pc = "chunk", !.k = maxTokens]

InitChunk ==
  /\ InitRest
  /\ main = Serving
  /\ collections = {}
  /\ records = [c \in Cols |-> {}]
  /\ budget = 0
  /\ \E text \in SmallTexts, maxTokens \in Limits :
       call = [p \in Procs |-> IF p = 1 THEN ChunkCall(text, maxTokens) ELSE IdleCall]

\* chunks := chunkText(text, maxTokens)
ChunkApply(p) ==
  LET c == call[p]
  IN /\ c.op = "chunkText" /\ c.pc = "chunk"
     /\ call' = [call EXCEPT ![p] =
          [c EXCEPT !.pc = "done", !.chunks = chunkText(c.text, c.k)]]
     /\ UNCHANGED <<collections, records, now, budget, ingested, upload, everIngested, request, main>>

NextChunk == \E p \in Procs : ChunkApply(p)

\* chunkText applied to every text of SmallTexts with every limit of Limits
SpecChunk == InitChunk /\ [][NextChunk]_vars

\* the user metadata of the documents searched: none, or a float score
ScoreMetas == {EmptyMap, ("score" :> Float64V(3))}

\* the filters of SpecSearch: none; one entry of each supported type; two
\* supported entries; a supported and an unsupported entry; unsupported
\* entries only (a boolean, a null)
WideFilters ==
  {EmptyMap,
   ("file_name" :> StrV("a.txt")),
   ("timestamp" :> IntV(0)),
   ("user_score" :> Float64V(2)),
   ("user_score" :> Float64V(3)),
   ("file_name" :> StrV("a.txt")) @@ ("file_md5" :> StrV(Md5Hex(HeadDoc))),
   ("file_name" :> StrV("a.txt")) @@ ("flag" :> BoolV(TRUE)),
   ("flag" :> BoolV(TRUE)),
   ("flag" :> BoolV(TRUE)) @@ ("none" :> Nil)}

\* searches of a collection that ingestion fills
NextSearch ==
  \/ \E p \in Procs, ok \in BOOLEAN : IngestDedupe(p, ok)
  \/ \E p \in Procs, ok \in BOOLEAN : IngestAdd(p, ok)
  \/ \E p \in Procs, ok \in BOOLEAN : SearchQuery(p, ok)
  \/ \E p \in Procs, ok \in BOOLEAN : DbSearchQuery(p, ok)
  \/ \E p \in Procs, col \in Cols, um \in ScoreMetas, ok \in BOOLEAN :
        IngestResolve(p, col, "a.txt", BigDoc, um, ok)
  \/ \E p \in Procs, col \in Cols, k \in {1, 5}, f \in WideFilters, ok \in BOOLEAN :
        SearchResolve(p, col, "w", k, f, ok)
  \/ \E p \in Procs, col \in Cols, k \in {0, 5}, f \in WideFilters, ok \in BOOLEAN :
        DbSearchResolve(p, col, "w", k, f, ok)

SpecSearch == Init /\ [][NextSearch]_vars

\* the files of a multipart form: a name and the bytes read from it
FormFiles == {[name |-> "a.txt", content |-> HeadDoc],
              [name |-> "b.txt", content |-> BigDoc]}

RECURSIVE FileListsOfLen(_)
FileListsOfLen(n) ==
  IF n = 0 THEN {<<>>}
  ELSE {Append(fs, f) : fs \in FileListsOfLen(n - 1), f \in FormFiles}

FileLists == UNION {FileListsOfLen(n) : n \in 0..MaxFiles}

InitUpload == InitStore /\ budget = MaxFiles

\* a multipart upload of up to MaxFiles files, and direct ingestions of the
\* same files by the other callers while it is served
NextUpload ==
  \/ \E p \in Procs, col \in Cols, f \in FormFiles, ok \in BOOLEAN :
        /\ upload[p].phase = "none" /\ \E q \in Procs : upload[q].phase = "loop"
        /\ IngestResolve(p, col, f.name, f.content, EmptyMap, ok)
  \/ \E p \in Procs, formOk \in BOOLEAN, files \in FileLists,
        collectionName \in Cols \cup {""}, metadataOk \in BOOLEAN :
        UploadBegin(p, formOk, files, collectionName, metadataOk, EmptyMap)
  \/ \E p \in Procs, at \in {"open", "read"} : UploadFileFail(p, at)
  \/ \E p \in Procs, ok \in BOOLEAN : UploadIngest(p, ok)
  \/ \E p \in Procs, ok \in BOOLEAN : IngestDedupe(p, ok)
  \/ \E p \in Procs, ok \in BOOLEAN : IngestAdd(p, ok)
  \/ \E p \in Procs : UploadCollect(p)
  \/ \E p \in Procs : UploadRespond(p)

SpecUpload == InitUpload /\ [][NextUpload]_vars

\* ingestion of the documents of WordDocs
NextDocs ==
  \/ \E p \in Procs, ok \in BOOLEAN : IngestDedupe(p, ok)
  \/ \E p \in Procs, ok \in BOOLEAN : IngestAdd(p, ok)
  \/ \E p \in Procs, col \in Cols, n \in Names, t \in WordDocs, ok \in BOOLEAN :
        IngestResolve(p, col, n, t, EmptyMap, ok)

SpecDocs == Init /\ [][NextDocs]_vars

\* the shapes of one array of a store answer: no group at all, or one
\* group of 0..MaxGroup entries
GroupShapes == {-1} \cup 0..MaxGroup

\* one array of a store answer of the given shape, cut from items
GroupsOf(shape, items) ==
  IF shape < 0 THEN <<>> ELSE <<SubSeq(items, 1, shape)>>

\* a store answer whose four arrays have the given shapes
ShapedAnswer(nd, ni, nm, ns) ==
  LET docs == [j \in 1..MaxGroup |-> "doc" \o ToString(j)]
      ids == [j \in 1..MaxGroup |-> "id" \o ToString(j)]
      metas == [j \in 1..MaxGroup |-> ("file_name" :> StrV("a.txt"))]
      dists == [j \in 1..MaxGroup |-> j - 1]
  IN [docs |-> GroupsOf(nd, docs), ids |-> GroupsOf(ni, ids),
      metadatas |-> GroupsOf(nm, metas), distances |-> GroupsOf(ns, dists)]

\* a Search call whose query has just been answered with resp
FlattenCall(resp) ==
  [NewCall("Search", "c1", "", "w", EmptyMap)
     EXCEPT !.pc = "flatten", !.k = 5,
            !.issued = <<[opts |-> QueryOptions("w", 5, EmptyMap, <<>>),
                          order |-> <<>>, resp |-> <<resp>>]>>]

InitFlatten ==
  /\ InitRest
  /\ main = Serving
  /\ collections = Cols
  /\ records = [c \in Cols |-> {}]
  /\ budget = 0
  /\ \E nd, ni, nm, ns \in GroupShapes :
       call = [p \in Procs |->
                 IF p = 1 THEN FlattenCall(ShapedAnswer(nd, ni, nm, ns)) ELSE IdleCall]

\* the flattening of the answer Search received; a read outside an array
\* is a run-time panic
FlattenApply(p) ==
  LET c == call[p]
      flat == Flatten(c.issued[1].resp[1])
  IN /\ c.op = "Search" /\ c.pc = "flatten"
     /\ call' = [call EXCEPT ![p] =
          [c EXCEPT !.pc = "done",
                    !.status = IF flat.panic THEN "panic" ELSE "ok",
                    !.results = flat.results]]
     /\ UNCHANGED <<collections, records, now, budget, ingested, upload, everIngested, request, main>>

NextFlatten == \E p \in Procs : FlattenApply(p)

\* Search's flattening applied to store answers of every shape
SpecFlatten == InitFlatten /\ [][NextFlatten]_vars

\* histories of IngestFile, CreateDocDirect with caller metadata, and
\* deletes, on a single source name
NextDirect ==
  \/ \E p \in Procs, ok \in BOOLEAN : IngestDedupe(p, ok)
  \/ \E p \in Procs, ok \in BOOLEAN : IngestAdd(p, ok)
  \/ \E p \in Procs, ok \in BOOLEAN : CreateCheck(p, ok)
  \/ \E p \in Procs, ok \in BOOLEAN : CreateAdd(p, ok)
  \/ \E p \in Procs, ok \in BOOLEAN : DeleteDocDelete(p, ok)
  \/ \E p \in Procs, col \in Cols, t \in Contents, ok \in BOOLEAN :
        IngestResolve(p, col, "a.txt", t, EmptyMap, ok)
  \/ \E p \in Procs, col \in Cols, id \in DocIDs, md \in DirectMetas, ok \in BOOLEAN :
        CreateResolve(p, col, id, "hello", md, ok)
  \/ \E p \in Procs, col \in Cols, ok \in BOOLEAN :
        \E id \in DeleteIDs(col) : DeleteDocResolve(p, col, id, ok)
  \/ \E p \in Procs, col \in Cols, ok \in BOOLEAN : DeleteCollection(p, col, ok)

SpecDirect == Init /\ [][NextDirect]_vars

\* the lists of at most one form file
ShortFileLists == FileListsOfLen(0) \cup FileListsOfLen(1)

\* the three handlers that take input, served by the first caller, and
\* CreateDocDirect calls of the other callers while a JSON request is served
NextHandlers ==
  \/ \E p \in Procs, formOk \in BOOLEAN, files \in ShortFileLists,
        collectionName \in Cols \cup {""}, metadataOk \in BOOLEAN :
        UploadBegin(p, formOk, files, collectionName, metadataOk, EmptyMap)
  \/ \E p \in Procs, at \in {"open", "read"} : UploadFileFail(p, at)
  \/ \E p \in Procs, ok \in BOOLEAN : UploadIngest(p, ok)
  \/ \E p \in Procs, ok \in BOOLEAN : IngestDedupe(p, ok)
  \/ \E p \in Procs, ok \in BOOLEAN : IngestAdd(p, ok)
  \/ \E p \in Procs : UploadCollect(p)
  \/ \E p \in Procs : UploadRespond(p)
  \/ \E p \in Procs, jsonOk \in BOOLEAN, col \in Cols \cup {""}, id \in DocIDs,
        text \in Texts : DirectBind(p, jsonOk, col, id, text, EmptyMap)
  \/ \E p \in Procs, ok \in BOOLEAN : DirectCall(p, ok)
  \/ \E p \in Procs, ok \in BOOLEAN : CreateCheck(p, ok)
  \/ \E p \in Procs, ok \in BOOLEAN : CreateAdd(p, ok)
  \/ \E p \in Procs : DirectRespond(p)
  \/ \E p \in Procs, jsonOk \in BOOLEAN, query \in {"", "w"}, col \in Cols \cup {""},
        k \in {0, 2} : SearchBind(p, jsonOk, query, col, k, EmptyMap)
  \/ \E p \in Procs, ok \in BOOLEAN : SearchCall(p, ok)
  \/ \E p \in Procs, ok \in BOOLEAN : SearchQuery(p, ok)
  \/ \E p \in Procs : SearchRespond(p)
  \/ \E p \in Procs, col \in Cols, id \in DocIDs, text \in Texts, ok \in BOOLEAN :
        /\ request[p].phase = "none" /\ upload[p].phase = "none"
        /\ \E q \in Procs : request[q].phase = "bound"
        /\ CreateResolve(p, col, id, text, EmptyMap, ok)

SpecHandlers == Init /\ [][NextHandlers]_vars

InitMain ==
  /\ InitRest
  /\ main = AtStart
  /\ collections = {}
  /\ records = [c \in Cols |-> {}]
  /\ call = [p \in Procs |-> IdleCall]
  /\ budget = MaxCalls

\* the process from its start: the startup checks, the two servers, and
\* collection requests once the HTTP server listens
NextMain ==
  \/ \E ok \in BOOLEAN : MainInitConfig(ok)
  \/ \E ok \in BOOLEAN : MainGetAll(ok)
  \/ \E ok \in BOOLEAN : MainNewChromaDB(ok)
  \/ \E ok \in BOOLEAN : MainHealth(ok)
  \/ MainStartMcp
  \/ \E ok \in BOOLEAN : MainListen(ok)
  \/ MainShutdown
  \/ \E p \in Procs, ok \in BOOLEAN : main.listening /\ ListCollections(p, ok)
  \/ \E p \in Procs, col \in Cols, ok \in BOOLEAN :
        main.listening /\ CreateCollection(p, col, ok)
  \/ \E p \in Procs, col \in Cols, ok \in BOOLEAN :
        main.listening /\ DeleteCollection(p, col, ok)

SpecMain == InitMain /\ [][NextMain]_vars

-----------------------------------------------------------------------------
(* Claims *)

IsOp(c, op) == c.op = op

\* C1: a succeeding IngestFile call that follows an IngestFile call of the
\* same collection and byte-identical content which returned 'ingested',
\* with no delete in between, returns 'skipped', issues no Add and leaves
\* the store as it was, whatever the two source names are.
C1_SecondIngestSkipped ==
  \A p \in Procs :
    LET c == call[p]
    IN (IsOp(c, "IngestFile") /\ Returned(c) /\ c.prior /\ c.failedAt = {})
       => (c.status = "skipped" /\ c.adds = <<>> /\ ~c.wrote)

\* C2: two IngestFile calls of the same new content that both pass the
\* dedupe query before either inserts both issue their Add and both return
\* 'ingested': each hands the store records that carry the content's
\* file_md5, nothing making the later call skip.
C2_RaceBothIngest ==
  \A p, q \in Procs :
    LET c == call[p]
        d == call[q]
    IN (/\ p # q
        /\ IsOp(c, "IngestFile") /\ IsOp(d, "IngestFile")
        /\ Returned(c) /\ Returned(d)
        /\ c.col = d.col /\ c.text = d.text
        /\ c.raced /\ c.failedAt = {}
        /\ d.probed /\ ~d.probeHit /\ d.failedAt = {})
       => /\ c.status = "ingested" /\ d.status = "ingested"
          /\ Len(c.adds) = 1 /\ Len(d.adds) = 1
          /\ \A x \in {c, d} : \A j \in 1..Len(x.adds[1][3]) :
               /\ "file_md5" \in DOMAIN x.adds[1][3][j]
               /\ x.adds[1][3][j]["file_md5"] = StrV(Md5Hex(x.text))

\* C2 witness: both calls have returned 'ingested' for the same content,
\* one of them having inserted while the other was past its dedupe query
C2_Witness ==
  \E p, q \in Procs :
    /\ p # q
    /\ IsOp(call[p], "IngestFile") /\ IsOp(call[q], "IngestFile")
    /\ call[p].text = call[q].text /\ call[p].col = call[q].col
    /\ call[p].name # call[q].name
    /\ call[p].raced
    /\ call[p].status = "ingested" /\ call[q].status = "ingested"

\* C3: CreateDocDirect with a non-empty id that the collection holds when
\* the id is looked up returns the conflict error and issues no Add.
C3_ConflictAlways ==
  \A p \in Procs :
    LET c == call[p]
    IN (IsOp(c, "CreateDocDirect") /\ Returned(c) /\ c.name # ""
        /\ c.probed /\ c.probeHit)
       => (c.err = "conflict: id already exists" /\ c.adds = <<>>)

\* a step of a call of operation op by caller p: its first step, which the
\* first free caller takes, or a later one, which moves its pc
StepOf(p, op) ==
  /\ call'[p].op = op
  /\ IF budget' # budget THEN Free(p) ELSE call'[p].pc # call[p].pc

\* C4: Search on a missing collection returns an error and no results, and
\* no step of a Search call changes the set of collections (or any record);
\* the first step of IngestFile, when it succeeds, leaves the collection
\* existing.
C4_SearchNeverCreates ==
  /\ [](\A p \in Procs :
          (IsOp(call[p], "Search") /\ Returned(call[p]) /\ call[p].colMissing)
          => (call[p].err # "" /\ call[p].results = <<>> /\ call[p].status = ""))
  /\ [][\A p \in Procs :
          /\ StepOf(p, "Search")
               => (collections' = collections /\ records' = records)
          /\ (StepOf(p, "IngestFile") /\ call'[p].pc = "dedupe")
               => call'[p].col \in collections']_vars

\* C4 witness: a Search of a collection that did not exist has returned,
\* and the collection still does not exist
C4_Witness ==
  \E p \in Procs :
    /\ IsOp(call[p], "Search") /\ Returned(call[p]) /\ call[p].colMissing
    /\ call[p].col \notin collections

\* C5: an IngestFile call whose collection resolution, dedupe query or
\* insert failed returns an error and no result; it returns 'skipped' only
\* after a dedupe query that succeeded and found a record, 'ingested' only
\* after an insert that succeeded; a call without error returns one of the
\* two.
C5_IngestOutcome ==
  \A p \in Procs :
    LET c == call[p]
    IN (IsOp(c, "IngestFile") /\ Returned(c))
       => /\ c.failedAt # {} => (c.err # "" /\ c.status = "")
          /\ c.status = "skipped" =>
               (c.probed /\ c.probeHit /\ c.failedAt = {} /\ c.adds = <<>>)
          /\ c.status = "ingested" => (Len(c.adds) = 1 /\ c.failedAt = {})
          /\ c.err = "" => c.status \in {"skipped", "ingested"}

\* C5 witness: an IngestFile call has returned after its insert failed
C5_Witness ==
  \E p \in Procs :
    /\ IsOp(call[p], "IngestFile") /\ Returned(call[p])
    /\ "insert" \in call[p].failedAt

\* C6: a service call one of whose store calls failed returns an error and
\* has issued no mutating store call after the failure.
C6_ErrorsPropagate ==
  \A p \in Procs :
    (Returned(call[p]) /\ call[p].failedAt # {})
    => (call[p].err # "" /\ ~call[p].lateMut)

\* C7: an IngestFile call that passed the dedupe query issues exactly one
\* Add, never a second one; the Add carries one id, one text and one
\* metadata record per chunk, in chunk order, and the chunk count of an
\* 'ingested' result is the number of records of the Add.
C7_SingleAlignedAdd ==
  \A p \in Procs :
    LET c == call[p]
    IN IsOp(c, "IngestFile") =>
       /\ Len(c.adds) <= 1
       /\ (Returned(c) /\ c.probed /\ ~c.probeHit /\ "dedupe" \notin c.failedAt)
            => Len(c.adds) = 1
       /\ \A a \in 1..Len(c.adds) :
            LET ids == c.adds[a][1]
                texts == c.adds[a][2]
                metas == c.adds[a][3]
                chunks == Chunked[c.text]
            IN /\ Len(ids) = Len(chunks)
               /\ Len(texts) = Len(chunks)
               /\ Len(metas) = Len(chunks)
               /\ \A j \in 1..Len(chunks) :
                    /\ texts[j] = chunks[j]
                    /\ ids[j] = ChunkID(c.name, chunks[j], j - 1)
                    /\ c.metadatas[j]["chunk_index"].v = j - 1
                    /\ metas[j] = ToChromaMetadata(c.metadatas[j])
               /\ c.status = "ingested" => c.nchunks = Len(ids)

\* C7 witness: a two-chunk document has been ingested
C7_Witness ==
  \E p \in Procs :
    /\ IsOp(call[p], "IngestFile") /\ call[p].status = "ingested"
    /\ call[p].nchunks = 2 /\ Len(call[p].adds) = 1

\* the metadata records IngestFile calls have handed to Add
AddedMetas(c) ==
  {<<j, c.adds[a][3][j]>> : a \in 1..Len(c.adds), j \in 1..Len(c.chunks)}

\* C8: every record IngestFile hands to Add carries the four system keys,
\* chunk_index being the 0-based position of the chunk.
C8_SystemKeysStored ==
  \A p \in Procs :
    IsOp(call[p], "IngestFile") =>
      \A x \in AddedMetas(call[p]) :
        /\ SystemKeys \subseteq DOMAIN x[2]
        /\ x[2]["chunk_index"].v = x[1] - 1

\* C9: the records of one IngestFile call all carry the same file_md5,
\* file_name and timestamp.
C9_SharedSystemValues ==
  \A p \in Procs :
    IsOp(call[p], "IngestFile") =>
      \A x, y \in AddedMetas(call[p]) :
        \A k \in {"file_md5", "file_name", "timestamp"} :
          (k \in DOMAIN x[2] /\ k \in DOMAIN y[2]) /\ x[2][k] = y[2][k]

\* C10: every key of a composed metadata record is a system key or starts
\* with user_; every caller key is kept under its user_ name with the
\* caller's value, and the system values are those of the call, also when
\* the caller names a key file_md5; the stored records keep the system
\* file_md5 and file_name.
C10_UserKeysNamespaced ==
  \A p \in Procs :
    LET c == call[p]
    IN IsOp(c, "IngestFile") =>
       /\ \A j \in 1..Len(c.metadatas) :
            LET m == c.metadatas[j]
            IN /\ \A k \in DOMAIN m : k \in SystemKeys \/ HasPrefix(k, UserPrefix)
               /\ SystemKeys \subseteq DOMAIN m
               /\ \A key \in DOMAIN c.umeta :
                    /\ (UserPrefix \o key) \in DOMAIN m
                    /\ m[UserPrefix \o key] = c.umeta[key]
               /\ m["file_md5"] = StrV(Md5Hex(c.text))
               /\ m["file_name"] = StrV(c.name)
               /\ m["chunk_index"] = IntV(j - 1)
               /\ m["timestamp"].t = "int64"
       /\ \A x \in AddedMetas(c) :
            /\ \A k \in DOMAIN x[2] : k \in SystemKeys \/ HasPrefix(k, UserPrefix)
            /\ x[2]["file_md5"] = StrV(Md5Hex(c.text))
            /\ x[2]["file_name"] = StrV(c.name)

\* C10 witness: a call whose caller supplied a key named file_md5 has
\* handed its records to Add
C10_Witness ==
  \E p \in Procs :
    /\ IsOp(call[p], "IngestFile") /\ Len(call[p].adds) = 1
    /\ "file_md5" \in DOMAIN call[p].umeta
    /\ "user_file_md5" \in DOMAIN call[p].adds[1][3][1]


RECURSIVE Concat(_)
\* the strings of a sequence, joined in index order
Concat(ss) == IF ss = <<>> THEN "" ELSE ss[1] \o Concat(Tail(ss))

\* the lines of a chunk: its text up to each line break
ChunkLines(chunk) ==
  LET pieces == SplitLines(chunk)
  IN IF chunk # "" /\ CharAt(chunk, Len(chunk)) = "\n"
     THEN SubSeq(pieces, 1, Len(pieces) - 1)
     ELSE pieces

RECURSIVE AllLines(_)
\* the lines of all chunks, in order
AllLines(chunks) ==
  IF chunks = <<>> THEN <<>> ELSE ChunkLines(chunks[1]) \o AllLines(Tail(chunks))

\* C11: the chunks chunkText returns, concatenated in index order, are the
\* input text followed by one newline, and their lines are the lines of the
\* input, none lost, duplicated or reordered.
C11_ChunksReconstructText ==
  \A p \in Procs :
    LET c == call[p]
    IN (IsOp(c, "chunkText") /\ Returned(c))
       => /\ Concat(c.chunks) = c.text \o "\n"
          /\ AllLines(c.chunks) = SplitLines(c.text)

\* C11 witness: a text of several lines has been split into several chunks
C11_Witness ==
  \E p \in Procs :
    /\ IsOp(call[p], "chunkText") /\ Returned(call[p])
    /\ Len(call[p].chunks) >= 2
    /\ Len(SplitLines(call[p].text)) > Len(call[p].chunks)

\* C12: chunkText applied to the empty text returns no chunk.
C12_EmptyTextNoChunk ==
  \A p \in Procs :
    LET c == call[p]
    IN (IsOp(c, "chunkText") /\ Returned(c) /\ c.text = "") => c.chunks = <<>>

\* C13: chunking is greedy with a soft bound: a chunk of two or more lines
\* has at most m tokens, so a chunk exceeds m only when it is a single
\* line, and the tokens of a chunk plus those of the first line of the next
\* chunk exceed m.
C13_GreedySoftBound ==
  \A p \in Procs :
    LET c == call[p]
        m == c.k
    IN (IsOp(c, "chunkText") /\ Returned(c))
       => /\ \A j \in 1..Len(c.chunks) :
               /\ Len(ChunkLines(c.chunks[j])) >= 2 => FieldCount(c.chunks[j]) <= m
               /\ FieldCount(c.chunks[j]) > m => Len(ChunkLines(c.chunks[j])) = 1
          /\ \A j \in 1..(Len(c.chunks) - 1) :
               FieldCount(c.chunks[j])
                 + FieldCount(ChunkLines(c.chunks[j + 1])[1]) > m

\* C13 witness: with one limit, chunkText has returned a chunk of two lines
\* within the limit and a single-line chunk above it
C13_Witness ==
  \E p \in Procs :
    LET c == call[p]
    IN /\ IsOp(c, "chunkText") /\ Returned(c)
       /\ \E i, j \in 1..Len(c.chunks) :
            /\ Len(ChunkLines(c.chunks[i])) >= 2 /\ FieldCount(c.chunks[i]) = c.k
            /\ FieldCount(c.chunks[j]) > c.k


\* the number of whitespace-delimited words of each document of WordDocs
WordCount == [t \in WordDocs |-> FieldCount(t)]

\* the call has chunked its text and composed the ids and the metadata
Composed(c) == IsOp(c, "IngestFile") /\ c.probed /\ c.chunks # <<>>

\* C14: an IngestFile call on a text of 1200 words that passes the dedupe
\* check produces exactly 3 chunks, whose composed metadata carry the same
\* file_md5 and file_name and the chunk_index values 0, 1 and 2.
C14_TwelveHundredWordsThreeChunks ==
  \A p \in Procs :
    LET c == call[p]
    IN (Composed(c) /\ c.text \in WordDocs /\ WordCount[c.text] = 1200)
       => /\ Len(c.chunks) = 3
          /\ Len(c.metadatas) = 3
          /\ \A j \in 1..Len(c.metadatas) :
               /\ c.metadatas[j]["file_md5"] = c.metadatas[1]["file_md5"]
               /\ c.metadatas[j]["file_name"] = c.metadatas[1]["file_name"]
               /\ c.metadatas[j]["chunk_index"].v = j - 1

\* the digest input of the id of chunk j (1-based) of call c
DigestInput(c, j) == c.name \o c.chunks[j] \o ToString(j - 1)

\* C15: a chunk id is the digest of (source id, chunk text, chunk index)
\* alone: equal triples give equal ids in every call, and within one call
\* the digest inputs, hence the ids, at different indices are different.
C15_ChunkIdsDeterministicDistinct ==
  \A p, q \in Procs :
    LET c == call[p]
        d == call[q]
    IN (Composed(c) /\ Composed(d))
       => /\ \A i \in 1..Len(c.ids) : c.ids[i] = Sha256Hex8(DigestInput(c, i))
          /\ \A i \in 1..Len(c.ids), j \in 1..Len(d.ids) :
               (c.name = d.name /\ c.chunks[i] = d.chunks[j] /\ i = j)
                 => c.ids[i] = d.ids[j]
          /\ \A i, j \in 1..Len(c.ids) :
               i # j => /\ DigestInput(c, i) # DigestInput(c, j)
                        /\ c.ids[i] # c.ids[j]

\* C15 witness: one call has composed the ids of two chunks of equal text,
\* and two calls have composed the ids of the same source and content
C15_Witness ==
  /\ \E p \in Procs :
       /\ Composed(call[p]) /\ Len(call[p].chunks) = 2
       /\ call[p].chunks[1] = call[p].chunks[2]
  /\ \E p, q \in Procs :
       /\ p # q /\ Composed(call[p]) /\ Composed(call[q])
       /\ call[p].name = call[q].name /\ call[p].text = call[q].text


\* the value types the filter translation has a case for
Supported(val) == val.t \in {"string", "int", "float64"}

\* the queries a search call has issued
IsSearch(c) == IsOp(c, "Search") \/ IsOp(c, "ChromaDB.Search")

\* the predicate is the equality on the key and value of entry key of f
IsEntry(where, f, key) ==
  /\ where # Nil /\ where.key = key
  /\ Supported(f[key]) /\ where.val.v = f[key].v

LastSupported(f, order) ==
  LET js == {j \in 1..Len(order) : Supported(f[order[j]])}
  IN order[CHOOSE j \in js : \A h \in js : h <= j]

C17_UnsupportedFilterIgnored ==
  \A p \in Procs :
    LET c == call[p]
        f == c.umeta
    IN (IsSearch(c) /\ DOMAIN f # {} /\ \A key \in DOMAIN f : ~Supported(f[key]))
       => \A j \in 1..Len(c.issued) :
            /\ ~c.issued[j].opts.hasWhere
            /\ IsOp(c, "Search") => c.issued[j].opts = QueryOptions(c.text, c.k, EmptyMap, <<>>)

\* the store's answer to the query of a Search call that got one
Answer(c) == c.issued[1].resp[1]

Answered(c) == IsOp(c, "Search") /\ Len(c.issued) = 1 /\ c.issued[1].resp # <<>>

C19_ResultsCarryStoredMetadata ==
  \A p \in Procs :
    LET c == call[p]
    IN Answered(c) =>
         \A i \in 1..Len(c.results) :
           c.results[i].Metadata = Answer(c).metadatas[1][i]


C28_FlattenNeverPanics ==
  \A p \in Procs :
    LET c == call[p]
    IN (IsOp(c, "Search") /\ Returned(c) /\ c.issued # <<>> /\ c.issued[1].resp # <<>>)
       => c.status = "ok"

\* C27: when an IngestFile call passes the dedupe check, none of the chunk
\* ids it generates is the id of a record the collection already holds,
\* also when the same source name is re-ingested with changed content.
C27_FreshIdsAfterDedupe ==
  [][\A p \in Procs :
       (/\ IsOp(call[p], "IngestFile") /\ call[p].pc = "dedupe"
        /\ call'[p].pc = "add")
       => \A j \in 1..Len(call'[p].ids) :
            StoreGetIDs(records[call[p].col], call'[p].ids[j]) = {}]_vars

\* the records of the collection that hold chunk j (0-based) of text: the
\* chunk's text under the content's file_md5
ChunkRecords(col, text, j) ==
  {r \in DedupeMatches(records[col], Md5Hex(text)) : r.text = Chunked[text][j + 1]}

\* C26: whenever IngestFile returns 'skipped' for content c, the collection
\* holds a record with c's file_md5 for every chunk index 0..n-1 of c.
C26_SkippedMeansComplete ==
  [][\A p \in Procs :
       (/\ IsOp(call[p], "IngestFile") /\ call[p].pc = "dedupe"
        /\ call'[p].status = "skipped")
       => \A j \in 1..Len(Chunked[call[p].text]) :
            ChunkRecords(call[p].col, call[p].text, j - 1) # {}]_vars

\* C25: IngestFile returns 'skipped' for content c only if an earlier
\* IngestFile call on the collection with the same content returned
\* 'ingested'; a record written by CreateDocDirect never causes a skip.
C25_SkippedOnlyAfterIngest ==
  \A p \in Procs :
    LET c == call[p]
    IN (IsOp(c, "IngestFile") /\ c.status = "skipped")
       => <<c.col, c.text>> \in everIngested

\* C24: a multipart upload that carries at least one file is answered with
\* HTTP 200 and per-file results, also when it sends no collection_id, as
\* the request of the handler test does.
C24_FilePartAloneAnswered200 ==
  \A p \in Procs :
    LET u == upload[p]
    IN (u.phase = "done" /\ u.nfiles >= 1 /\ u.reject \notin {"form", "metadata"})
       => (u.http = 200 /\ Len(u.results) = u.nfiles)

\* a JSON request that lacks a required field
MissingField(r) ==
  /\ r.handler \in {"direct", "search"}
  /\ r.col = "" \/ r.text = ""

\* an upload request with no file or no collection_id
UploadMissing(u) == u.phase # "none" /\ (u.nfiles = 0 \/ u.col = "")

IdConflict(c) == c.err # "" /\ c.failedAt = {} /\ c.probed /\ c.probeHit

\* C22: the direct-ingest handler answers 409 exactly when CreateDocDirect
\* failed because the supplied id already exists; every other failure of
\* CreateDocDirect, whatever the text of the store error, is answered 500.
C22_ConflictStatusOnlyForIdConflict ==
  [][\A p \in Procs :
       (/\ request[p].handler = "direct" /\ request[p].phase = "bound"
        /\ request'[p].phase = "done")
       => /\ request'[p].http = 409 <=> IdConflict(call[p])
          /\ (call[p].err # "" /\ ~IdConflict(call[p])) => request'[p].http = 500]_vars

\* C23: if a startup check fails (config store init, store client creation,
\* store heartbeat) the process stops there: the HTTP server never listens
\* and the tool-protocol server is never started after a failed check.
C23_FailedCheckStopsStartup ==
  (main.failed \cap {"config", "client", "heartbeat"} # {})
    => (~main.listening /\ ~main.mcp)

====
